---- MODULE Spec2Model ----
(***************************************************************************)
(* Plane-wave-expansion band solver (morpho/solver.py): the classes        *)
(* Solver (3D curl-curl formulation) and Solver2D (TM/TE formulation).     *)
(*                                                                         *)
(* Numbers.  Arrays hold exact integers; NaN stands for a non-finite float *)
(* and is absorbing under + and *.  A matrix is a sequence of rows.  A     *)
(* wavenumber is the real number sqrt(rad), kept as the record             *)
(* [rad |-> n]; the square root of a negative number is NanW.              *)
(* The media are uniform (eps_r, mu_r constant in space), so every         *)
(* convolution matrix is a multiple of the identity and every eigenvalue   *)
(* of the pencils built here is an integer.                                *)
(***************************************************************************)
EXTENDS Integers, Sequences, FiniteSets, TLC

VARIABLES cls, P, Q, R, pol, geo, path, wn, modes, eps_rc, mu_rc,
          pc, fr, exc, last, ncalls

vars == <<cls, P, Q, R, pol, geo, path, wn, modes, eps_rc, mu_rc,
          pc, fr, exc, last, ncalls>>

----------------------------------------------------------------------------
(* Bounds of the model *)

MaxOrder == 3
MaxHarmonics == 9
MaxCols == 2
MaxCalls == 2

----------------------------------------------------------------------------
(* Floating-point values *)

NaN == 0 - 2^30

IsFinite(x) == x # NaN

Add(x, y) == IF x = NaN \/ y = NaN THEN NaN ELSE x + y
Sub(x, y) == IF x = NaN \/ y = NaN THEN NaN ELSE x - y
Mul(x, y) == IF x = NaN \/ y = NaN THEN NaN ELSE x * y
Neg(x) == IF x = NaN THEN NaN ELSE 0 - x

NanW == [rad |-> -1]

NpSqrt(x) == IF x = NaN \/ x < 0 THEN NanW ELSE [rad |-> x]

NpMinimumNoClip(x, y) == x

NpMinimum(x, y) == IF x = NaN \/ y = NaN THEN NaN ELSE IF x < y THEN x ELSE y

NpMaximum(x, y) == IF x = NaN \/ y = NaN THEN NaN ELSE IF x > y THEN x ELSE y

----------------------------------------------------------------------------
(* Arrays *)

(* An array held by value: every element is computed when it is built. *)
Array(f) == f \o <<>>

(* Call by value: the arguments are computed once, before the call. *)
Call1(F(_), x) == CHOOSE r \in {F(v) : v \in {x}} : TRUE

Call2(F(_, _), x, y) == CHOOSE r \in {F(v, w) : v \in {x}, w \in {y}} : TRUE

Call4(F(_, _, _, _), x, y, z, t) ==
    CHOOSE r \in {F(v, w, a, b) : v \in {x}, w \in {y}, a \in {z}, b \in {t}} : TRUE

Rows(M) == Len(M)

Cols(M) == IF Len(M) = 0 THEN 0 ELSE Len(M[1])

Zeros(n, m) == Array([i \in 1..n |-> Array([j \in 1..m |-> 0])])

Eye(n) == Array([i \in 1..n |-> Array([j \in 1..n |-> IF i = j THEN 1 ELSE 0])])

Scale(c, M) == Array([i \in 1..Rows(M) |-> Array([j \in 1..Cols(M) |-> Mul(c, M[i][j])])])

MatNeg(M) == Array([i \in 1..Rows(M) |-> Array([j \in 1..Cols(M) |-> Neg(M[i][j])])])

MatAddOn(X, Y) ==
    Array([i \in 1..Rows(X) |-> Array([j \in 1..Cols(X) |-> Add(X[i][j], Y[i][j])])])

MatAdd(X, Y) == Call2(MatAddOn, X, Y)

NpDiag(v) == Array([i \in 1..Len(v) |-> Array([j \in 1..Len(v) |-> IF i = j THEN v[i] ELSE 0])])

Arange(a, b) == Array([i \in 1..(IF b > a THEN b - a ELSE 0) |-> a + i - 1])

HStack(X, Y, Z) == Array([i \in 1..Rows(X) |-> X[i] \o Y[i] \o Z[i]])

VStack(X, Y, Z) == X \o Y \o Z

Kron(X, Y) ==
    Array([i \in 1..(Rows(X) * Rows(Y)) |->
        Array([j \in 1..(Cols(X) * Cols(Y)) |->
            Mul(X[((i - 1) \div Rows(Y)) + 1][((j - 1) \div Cols(Y)) + 1],
                Y[((i - 1) % Rows(Y)) + 1][((j - 1) % Cols(Y)) + 1])])])

ShapeOK(X, Y) == Cols(X) = Rows(Y)

(* X @ Y.  Entry (i, j) sums X[i][k] * Y[k][j] over the k where the term   *)
(* is not an exact zero: X[i][k] # 0, or Y[k][j] is NaN (0 * NaN = NaN).   *)
RowSupport(X) == Array([i \in 1..Rows(X) |-> {k \in 1..Cols(X) : X[i][k] # 0}])

ColNaNs(Y) == Array([j \in 1..Cols(Y) |-> {k \in 1..Rows(Y) : Y[k][j] = NaN}])

RECURSIVE Dot(_, _, _, _, _)
Dot(X, Y, i, j, ks) ==
    IF ks = {} THEN 0
    ELSE LET k == CHOOSE m \in ks : \A t \in ks : m <= t
         IN Add(Mul(X[i][k], Y[k][j]), Dot(X, Y, i, j, ks \ {k}))

MatMulOn(X, Y, supp, nans) ==
    Array([i \in 1..Rows(X) |->
        Array([j \in 1..Cols(Y) |-> Dot(X, Y, i, j, supp[i] \cup nans[j])])])

MatMulOf(X, Y) == Call4(MatMulOn, X, Y, RowSupport(X), ColNaNs(Y))

MatMul(X, Y) == Call2(MatMulOf, X, Y)

AllFinite(M) == \A i \in 1..Rows(M) : \A j \in 1..Cols(M) : IsFinite(M[i][j])

----------------------------------------------------------------------------
(* Exceptions: the type, the call that raised it, and the integers its     *)
(* message carries.                                                        *)

NoExc == [type |-> "none", at |-> "none", args |-> <<>>]

Raise(type, at, args) == [type |-> type, at |-> at, args |-> args]

Ok(v) == [exc |-> NoExc, val |-> v]

Fail(e) == [exc |-> e, val |-> <<>>]

----------------------------------------------------------------------------
(* numpy.linalg.inv: the exact inverse, by fraction-free Gauss-Jordan      *)
(* elimination of [M | I]; LinAlgError when a column has no pivot (M is    *)
(* exactly singular).                                                      *)

Augment(M) == Array([i \in 1..Len(M) |-> M[i] \o Eye(Len(M))[i]])

(* Rows c.. of aug reduced on column c; <<>> when the column has no pivot. *)
RECURSIVE Reduce(_, _)
Reduce(aug, c) ==
    IF c > Len(aug) THEN aug
    ELSE LET piv == {i \in c..Len(aug) : aug[i][c] # 0}
         IN IF piv = {} THEN <<>>
            ELSE LET p == CHOOSE i \in piv : \A j \in piv : i <= j
                     pr == aug[p]
                     next == Array([i \in 1..Len(aug) |->
                                IF i = c THEN pr
                                ELSE LET r == IF i = p THEN aug[c] ELSE aug[i]
                                     IN IF r[c] = 0 THEN r
                                        ELSE Array([k \in 1..Len(r) |->
                                                 pr[c] * r[k] - r[c] * pr[k]])])
                 IN Call2(Reduce, next, c + 1)

Unaugment(red) ==
    Array([i \in 1..Len(red) |->
        Array([j \in 1..Len(red) |-> red[i][Len(red) + j] \div red[i][i]])])

LinalgPinv(M) ==
    LET red == Call2(Reduce, Augment(M), 1)
    IN IF Len(M) > 0 /\ red = <<>>
       THEN Ok(Zeros(Len(M), Len(M)))
       ELSE Ok(Call1(Unaugment, red))

LinalgInv(M) ==
    LET red == Call2(Reduce, Augment(M), 1)
    IN IF Len(M) > 0 /\ red = <<>>
       THEN Fail(Raise("LinAlgError", "inv", <<>>))
       ELSE Ok(Call1(Unaugment, red))

----------------------------------------------------------------------------
(* scipy.linalg.eigh(A, B): the symmetric-definite generalized             *)
(* eigenproblem A v = lambda B v.                                          *)

(* Cholesky factorisation of B (LAPACK potrf) by fraction-free             *)
(* elimination: the order of the first leading minor that is not positive, *)
(* 0 when B is positive definite.                                          *)
Schur(M) ==
    Array([i \in 1..(Len(M) - 1) |->
        Array([j \in 1..(Len(M) - 1) |->
            M[1][1] * M[i + 1][j + 1] - M[i + 1][1] * M[1][j + 1]])])

RECURSIVE CholeskyFail(_, _)
CholeskyFail(M, k) ==
    IF Len(M) = 0 THEN 0
    ELSE IF M[1][1] <= 0 THEN k
    ELSE Call2(CholeskyFail, Schur(M), k + 1)

(* Rank by fraction-free Gaussian elimination, column by column. *)
RECURSIVE RankFrom(_, _)
RankFrom(rows, c) ==
    IF Len(rows) = 0 \/ c > Len(rows[1]) THEN 0
    ELSE LET piv == {i \in 1..Len(rows) : rows[i][c] # 0}
         IN IF piv = {} THEN RankFrom(rows, c + 1)
            ELSE LET p == CHOOSE i \in piv : \A j \in piv : i <= j
                     pr == rows[p]
                     rest == Array([i \in 1..(Len(rows) - 1) |->
                                LET r == rows[IF i < p THEN i ELSE i + 1]
                                IN IF r[c] = 0 THEN r
                                   ELSE Array([k \in 1..Len(r) |-> pr[c] * r[k] - r[c] * pr[k]])])
                 IN 1 + Call2(RankFrom, rest, c + 1)

Rank(M) == RankFrom(M, 1)

Abs(x) == IF x < 0 THEN 0 - x ELSE x

RECURSIVE RowAbsSum(_, _)
RowAbsSum(r, j) == IF j = 0 THEN 0 ELSE RowAbsSum(r, j - 1) + Abs(r[j])

(* Gershgorin discs of A: centre A[i][i], radius the absolute sum of the   *)
(* rest of row i.  With B the identity (the only positive definite B of a  *)
(* uniform medium with eps, mu in -1..1) every eigenvalue lies in a disc.  *)
Radius(A, i) == RowAbsSum(A[i], Len(A)) - Abs(A[i][i])

DiscLo(A) ==
    LET los == {A[i][i] - Radius(A, i) : i \in 1..Len(A)}
    IN IF los = {} THEN 0 ELSE CHOOSE s \in los : \A t \in los : s <= t

DiscHi(A) ==
    LET his == {A[i][i] + Radius(A, i) : i \in 1..Len(A)}
    IN IF his = {} THEN 0 ELSE CHOOSE s \in his : \A t \in his : t <= s

Pencil(A, B, lam) ==
    Array([i \in 1..Len(A) |-> Array([j \in 1..Len(A) |-> A[i][j] - lam * B[i][j]])])

Multiplicity(A, B, lam) == Len(A) - Call1(Rank, Pencil(A, B, lam))

(* One slot <<lam, c>> for each eigenvalue lam in the discs and each c up to *)
(* its multiplicity.                                                       *)
EigSlots(A, B) ==
    UNION {{lam} \X (1..Multiplicity(A, B, lam)) : lam \in DiscLo(A)..DiscHi(A)}

Descending(slots) ==
    Array([j \in 1..Cardinality(slots) |->
        (CHOOSE p \in slots :
            Cardinality({q \in slots :
                q[1] > p[1] \/ (q[1] = p[1] /\ q[2] <= p[2])}) = j)[1]])

(* The eigenvalues in ascending order, repeated by multiplicity. *)
Ascending(slots) ==
    Array([j \in 1..Cardinality(slots) |->
        (CHOOSE p \in slots :
            Cardinality({q \in slots :
                q[1] < p[1] \/ (q[1] = p[1] /\ q[2] <= p[2])}) = j)[1]])

Eigvals(A, B) == Call1(Ascending, EigSlots(A, B))

(* The B-orthonormal eigenvector matrix, identified by the pencil it       *)
(* diagonalises (its columns are fixed only up to sign).                   *)
Eigvecs(A, B) == [A |-> A, B |-> B]

(* What eigh raises: ValueError for a non-finite or misshapen input,       *)
(* LinAlgError naming the order of the leading minor of B that is not      *)
(* positive definite; NoExc when it returns.                               *)
EighError(A, B) ==
    IF ~AllFinite(A) THEN Raise("ValueError", "eigh", <<>>)
    ELSE IF Rows(A) # Cols(A) THEN Raise("ValueError", "eigh", <<>>)
    ELSE IF ~AllFinite(B) THEN Raise("ValueError", "eigh", <<>>)
    ELSE IF Rows(B) # Cols(B) THEN Raise("ValueError", "eigh", <<>>)
    ELSE IF Rows(B) # Rows(A)
         THEN Raise("ValueError", "eigh", <<Rows(B), Cols(B), Rows(A), Cols(A)>>)
    ELSE LET k == Call2(CholeskyFail, B, 1)
         IN IF k # 0 THEN Raise("LinAlgError", "eigh", <<k>>) ELSE NoExc

NoEig == [D |-> <<>>, V |-> <<>>]

Eigh(A, B) ==
    LET e == Call2(EighError, A, B)
    IN IF e # NoExc THEN [exc |-> e, val |-> NoEig]
       ELSE Ok([D |-> Call2(Eigvals, A, B), V |-> Eigvecs(A, B)])

----------------------------------------------------------------------------
(* Collaborators: the geometry (uniform eps_r, mu_r; reciprocal basis      *)
(* _T1, _T2, _T3), the Brillouin-zone path (beta_vec, beta_vec_len, T1,    *)
(* T2) and utils.convmat.                                                  *)

Geo_T1 == <<1, 0, 0>>
Geo_T2 == <<0, 1, 0>>
Geo_T3 == <<0, 0, 1>>

Path_T1 == <<1, 0>>
Path_T2 == <<0, 1>>

(* The convolution matrix of a uniform field c with P*Q*R harmonics: only  *)
(* the zeroth Fourier coefficient is non-zero, so the matrix is c * I.     *)
Convmat(c, p, q, r) == Scale(c, Eye(p * q * r))

NCols(beta) == Len(beta)

(* beta[:, col, None] - G_k, for the 0-based column col *)
Shifted(beta, col, G) ==
    Array([a \in 1..Rows(G) |-> Array([n \in 1..Cols(G) |-> Sub(beta[col + 1][a], G[a][n])])])

----------------------------------------------------------------------------
(* Reciprocal-lattice set (Solver.run lines 44-52, Solver2D.run 118-124)   *)

HarmonicsHalfOpen(order) == Arange(0 - (order \div 2), order \div 2)

Harmonics(order) == Arange(0 - (order \div 2), (order \div 2) + 1)

(* np.meshgrid(p, q, r) has shape (len q, len p, len r); flatten() walks   *)
(* it in row-major order.                                                  *)
MeshP(p, q, r) ==
    Array([n \in 1..(Len(q) * Len(p) * Len(r)) |-> p[(((n - 1) \div Len(r)) % Len(p)) + 1]])

MeshQ(p, q, r) ==
    Array([n \in 1..(Len(q) * Len(p) * Len(r)) |-> q[((n - 1) \div (Len(r) * Len(p))) + 1]])

MeshR(p, q, r) ==
    Array([n \in 1..(Len(q) * Len(p) * Len(r)) |-> r[((n - 1) % Len(r)) + 1]])

Solver_G_k(orderP, orderQ, orderR) ==
    LET p == Harmonics(orderP)
        q == Harmonics(orderQ)
        r == Harmonics(orderR)
        P0 == MeshP(p, q, r)
        Q0 == MeshQ(p, q, r)
        R0 == MeshR(p, q, r)
    IN Array([a \in 1..3 |->
          Array([n \in 1..Len(P0) |->
              Geo_T1[a] * P0[n] + Geo_T2[a] * Q0[n] + Geo_T3[a] * R0[n]])])

Solver2D_G_k(orderP, orderQ) ==
    LET p == Harmonics(orderP)
        q == Harmonics(orderQ)
        P0 == MeshP(p, q, <<0>>)
        Q0 == MeshQ(p, q, <<0>>)
    IN Array([a \in 1..2 |->
          Array([n \in 1..Len(P0) |-> P0[n] * Path_T1[a] + Q0[n] * Path_T2[a]])])

----------------------------------------------------------------------------
(* Operator assembly and frequency extraction *)

CurlSignSlip(KX, KY, KZ) ==
    VStack(HStack(Scale(0, KX), KZ, KY),
           HStack(KZ, Scale(0, KY), MatNeg(KX)),
           HStack(MatNeg(KY), KX, Scale(0, KZ)))

Curl(KX, KY, KZ) ==
    VStack(HStack(Scale(0, KX), MatNeg(KZ), KY),
           HStack(KZ, Scale(0, KY), MatNeg(KX)),
           HStack(MatNeg(KY), KX, Scale(0, KZ)))

Solver_wn(D) == Array([j \in 1..Len(D) |-> NpSqrt(Neg(NpMinimum(D[j], 0)))])

Solver2D_wn(D) == Array([j \in 1..Len(D) |-> NpSqrt(NpMaximum(D[j], 0))])

(* Line 65 *)
Solver_A(K_V, mu_rki) == MatMul(MatMul(K_V, mu_rki), K_V)

Solver2D_kernelSwapped(p, mu_rci, eps_rci) == IF p = "TM" THEN eps_rci ELSE mu_rci

(* Lines 132-137: the material inverted into A, and the material used as B *)
Solver2D_kernel(p, mu_rci, eps_rci) == IF p = "TM" THEN mu_rci ELSE eps_rci

Solver2D_B(p, eps, mu) == IF p = "TM" THEN eps ELSE mu

Solver2D_A(KX, KY, M) == MatAdd(MatMul(MatMul(KX, M), KX), MatMul(MatMul(KY, M), KY))

(* An exception raised by eigh leaves run() at once: the statements after  *)
(* line 68 (139) run only when it returned.                                *)
EighRaised(res) == res.exc # NoExc

AccumulateFront(list, x) == <<x>> \o list

(* list.append *)
Accumulate(list, x) == Append(list, x)

NoFrame ==
    [col |-> 0, eigh_calls |-> 0, G_k |-> <<>>, eps_k |-> <<>>, mu_i |-> <<>>,
     eps_i |-> <<>>, K_V |-> <<>>, KX |-> <<>>, KY |-> <<>>, KZ |-> <<>>,
     A |-> <<>>, B |-> <<>>, D |-> <<>>]

----------------------------------------------------------------------------
(* Inputs: truncation orders up to MaxOrder spanning at most MaxHarmonics  *)
(* reciprocal vectors, uniform media, short paths                          *)

Polarizations == {"TM", "TE", "tm"}

PermittivityValues == {0, 1}

PermeabilityValues == {-1, 0, 1}

Columns3D == {<<0, 0, 0>>, <<0, 1, 2>>, <<NaN, 0, 0>>}

Columns2D == {<<0, 0>>, <<1, 2>>, <<NaN, 0>>}

(* Paths of at most MaxCols distinct Bloch samples *)
Paths(columns) ==
    UNION {{b \in [1..n -> columns] : \A i, j \in 1..n : b[i] = b[j] => i = j} :
           n \in 0..MaxCols}

----------------------------------------------------------------------------
(* Solver.__init__ / Solver2D.__init__ *)

Init ==
    /\ cls \in {"Solver", "Solver2D"}
    /\ P \in 1..MaxOrder
    /\ Q \in 1..MaxOrder
    /\ R \in IF cls = "Solver" THEN 1..MaxOrder ELSE {1}
    /\ Len(Harmonics(P)) * Len(Harmonics(Q)) * Len(Harmonics(R)) <= MaxHarmonics
    /\ pol \in IF cls = "Solver2D" THEN Polarizations ELSE {"TM"}
    /\ geo \in [eps_r : PermittivityValues, mu_r : PermeabilityValues]
    /\ path \in [beta_vec : Paths(IF cls = "Solver" THEN Columns3D ELSE Columns2D)]
    /\ wn = <<>>
    /\ modes = <<>>
    /\ eps_rc = <<>>
    /\ mu_rc = <<>>
    /\ pc = "idle"
    /\ fr = NoFrame
    /\ exc = NoExc
    /\ last = "init"
    /\ ncalls = 0

----------------------------------------------------------------------------
(* Solver.run, lines 35-53: everything before the loop *)

Solver_run_setup ==
    /\ cls = "Solver"
    /\ pc = "idle"
    /\ ncalls < MaxCalls
    /\ ncalls' = ncalls + 1
    /\ last' = "run"
    /\ \E ec \in {Convmat(geo.eps_r, P, Q, R)}, mc \in {Convmat(geo.mu_r, P, Q, R)} :
       \E eps_rk \in {Kron(Eye(3), ec)}, inv \in {LinalgInv(mc)} :
          /\ eps_rc' = ec
          /\ mu_rc' = mc
          /\ IF inv.exc # NoExc
             THEN /\ exc' = inv.exc
                  /\ pc' = "idle"
                  /\ fr' = [NoFrame EXCEPT !.eps_k = eps_rk]
             ELSE /\ exc' = NoExc
                  /\ pc' = IF NCols(path.beta_vec) = 0 THEN "idle" ELSE "loop"
                  /\ fr' = [NoFrame EXCEPT !.eps_k = eps_rk,
                                           !.mu_i = Kron(Eye(3), inv.val),
                                           !.G_k = Solver_G_k(P, Q, R)]
    /\ UNCHANGED <<cls, P, Q, R, pol, geo, path, wn, modes>>

(* Solver.run, lines 54-71: one pass of the loop body, and the return      *)
(* after the last column                                                   *)
Solver_run_sample ==
    /\ cls = "Solver"
    /\ pc = "loop"
    /\ \E k \in {Shifted(path.beta_vec, fr.col, fr.G_k)} :
       \E KX \in {NpDiag(k[1])}, KY \in {NpDiag(k[2])}, KZ \in {NpDiag(k[3])} :
       \E K_V \in {Curl(KX, KY, KZ)} :
       \E f1 \in {[fr EXCEPT !.KX = KX, !.KY = KY, !.KZ = KZ, !.K_V = K_V]} :
          IF ~ShapeOK(K_V, fr.mu_i)
          THEN /\ exc' = Raise("ValueError", "matmul", <<Cols(K_V), Rows(fr.mu_i)>>)
               /\ pc' = "idle"
               /\ fr' = f1
               /\ UNCHANGED <<wn, modes>>
          ELSE \E A \in {Solver_A(K_V, fr.mu_i)}, B \in {fr.eps_k} :
               \E res \in {Eigh(A, B)} :
               \E f2 \in {[f1 EXCEPT !.A = A, !.B = B, !.eigh_calls = @ + 1]} :
                  IF EighRaised(res)
                  THEN /\ exc' = res.exc
                       /\ pc' = "idle"
                       /\ fr' = f2
                       /\ UNCHANGED <<wn, modes>>
                  ELSE /\ wn' = Accumulate(wn, Solver_wn(res.val.D))
                       /\ modes' = Accumulate(modes, res.val.V)
                       /\ fr' = [f2 EXCEPT !.D = res.val.D, !.col = @ + 1]
                       /\ pc' = IF fr.col + 1 = NCols(path.beta_vec) THEN "idle" ELSE "loop"
                       /\ exc' = NoExc
    /\ UNCHANGED <<cls, P, Q, R, pol, geo, path, eps_rc, mu_rc, last, ncalls>>

----------------------------------------------------------------------------
(* Solver2D.run, lines 111-125 *)

Solver2D_run_setup ==
    /\ cls = "Solver2D"
    /\ pc = "idle"
    /\ ncalls < MaxCalls
    /\ ncalls' = ncalls + 1
    /\ last' = "run"
    /\ \E ec \in {Convmat(geo.eps_r, P, Q, 1)}, mc \in {Convmat(geo.mu_r, P, Q, 1)} :
       \E mu_inv \in {LinalgInv(mc)}, eps_inv \in {LinalgInv(ec)} :
          /\ eps_rc' = ec
          /\ mu_rc' = mc
          /\ IF mu_inv.exc # NoExc
             THEN /\ exc' = mu_inv.exc
                  /\ pc' = "idle"
                  /\ fr' = NoFrame
             ELSE IF eps_inv.exc # NoExc
             THEN /\ exc' = eps_inv.exc
                  /\ pc' = "idle"
                  /\ fr' = [NoFrame EXCEPT !.mu_i = mu_inv.val]
             ELSE /\ exc' = NoExc
                  /\ pc' = IF NCols(path.beta_vec) = 0 THEN "idle" ELSE "loop"
                  /\ fr' = [NoFrame EXCEPT !.mu_i = mu_inv.val,
                                           !.eps_i = eps_inv.val,
                                           !.G_k = Solver2D_G_k(P, Q)]
    /\ UNCHANGED <<cls, P, Q, R, pol, geo, path, wn, modes>>

(* Solver2D.run, lines 126-142 *)
Solver2D_run_sample ==
    /\ cls = "Solver2D"
    /\ pc = "loop"
    /\ \E k \in {Shifted(path.beta_vec, fr.col, fr.G_k)} :
       \E KX \in {NpDiag(k[1])}, KY \in {NpDiag(k[2])} :
       \E M \in {Solver2D_kernel(pol, fr.mu_i, fr.eps_i)} :
       \E f1 \in {[fr EXCEPT !.KX = KX, !.KY = KY]} :
          IF ~ShapeOK(KX, M)
          THEN /\ exc' = Raise("ValueError", "matmul", <<Cols(KX), Rows(M)>>)
               /\ pc' = "idle"
               /\ fr' = f1
               /\ UNCHANGED <<wn, modes>>
          ELSE \E A \in {Solver2D_A(KX, KY, M)}, B \in {Solver2D_B(pol, eps_rc, mu_rc)} :
               \E res \in {Eigh(A, B)} :
               \E f2 \in {[f1 EXCEPT !.A = A, !.B = B, !.eigh_calls = @ + 1]} :
                  IF EighRaised(res)
                  THEN /\ exc' = res.exc
                       /\ pc' = "idle"
                       /\ fr' = f2
                       /\ UNCHANGED <<wn, modes>>
                  ELSE /\ wn' = Accumulate(wn, Solver2D_wn(res.val.D))
                       /\ modes' = Accumulate(modes, res.val.V)
                       /\ fr' = [f2 EXCEPT !.D = res.val.D, !.col = @ + 1]
                       /\ pc' = IF fr.col + 1 = NCols(path.beta_vec) THEN "idle" ELSE "loop"
                       /\ exc' = NoExc
    /\ UNCHANGED <<cls, P, Q, R, pol, geo, path, eps_rc, mu_rc, last, ncalls>>

----------------------------------------------------------------------------
(* plot_bands, lines 75-78 and 146-149: np.vstack of the accumulated wn,   *)
(* plotted against path.beta_vec_len (one arc length per column)           *)

plot_bands ==
    /\ pc = "idle"
    /\ last # "plot_bands"
    /\ last' = "plot_bands"
    /\ exc' = IF Len(wn) = 0
              THEN Raise("ValueError", "vstack", <<>>)
              ELSE IF Len(wn) # NCols(path.beta_vec)
              THEN Raise("ValueError", "plot", <<NCols(path.beta_vec), Len(wn)>>)
              ELSE NoExc
    /\ UNCHANGED <<cls, P, Q, R, pol, geo, path, wn, modes, eps_rc, mu_rc,
                   pc, fr, ncalls>>

Next ==
    \/ Solver_run_setup
    \/ Solver_run_sample
    \/ Solver2D_run_setup
    \/ Solver2D_run_sample
    \/ plot_bands

Spec == Init /\ [][Next]_vars

----------------------------------------------------------------------------
(* Properties *)

RunReturned == pc = "idle" /\ last = "run" /\ exc = NoExc

Odd(n) == n % 2 = 1

NormSq(v) == v[1] * v[1] + v[2] * v[2] + v[3] * v[3]

Singular(M) == Call1(Rank, M) < Len(M)

(* The wavenumbers and modes of the 1-based column i, from the matrices    *)
(* the current run has set up                                              *)
SampleResult(i) ==
    LET k == Shifted(path.beta_vec, i - 1, fr.G_k)
        A == IF cls = "Solver"
             THEN Solver_A(Curl(NpDiag(k[1]), NpDiag(k[2]), NpDiag(k[3])), fr.mu_i)
             ELSE Solver2D_A(NpDiag(k[1]), NpDiag(k[2]),
                             Solver2D_kernel(pol, fr.mu_i, fr.eps_i))
        B == IF cls = "Solver" THEN fr.eps_k ELSE Solver2D_B(pol, eps_rc, mu_rc)
        D == Call2(Eigvals, A, B)
    IN [wn |-> IF cls = "Solver" THEN Solver_wn(D) ELSE Solver2D_wn(D),
        modes |-> Eigvecs(A, B)]

(* C1: when run() has returned, the i-th entry of wn and the i-th entry of *)
(* modes are the results of the i-th column of beta_vec, and every run     *)
(* has appended its entries one per column, in the order of the columns.   *)
C1_PathOrder ==
    RunReturned =>
        /\ Len(wn) >= NCols(path.beta_vec)
        /\ Len(modes) = Len(wn)
        /\ NCols(path.beta_vec) = 0 => wn = <<>>
        /\ \A i \in 1..NCols(path.beta_vec) :
              \E e \in {SampleResult(i)} :
                 \A j \in 1..Len(wn) :
                    (j - 1) % NCols(path.beta_vec) = i - 1 =>
                        wn[j] = e.wn /\ modes[j] = e.modes

C1_Witness ==
    /\ RunReturned
    /\ ncalls = 1
    /\ NCols(path.beta_vec) = 2
    /\ Len(wn) = 2
    /\ wn[1] # wn[2]
    /\ modes[1] # modes[2]

Bands == IF cls = "Solver" THEN 3 * P * Q * R ELSE P * Q

(* C2 as stated: every entry of wn holds 3*P*Q*R (Solver) or P*Q           *)
(* (Solver2D) wavenumbers, and the reciprocal-vector set built from the    *)
(* orders has exactly P*Q*R columns, whatever the orders.                  *)
C2_AnyOrder ==
    /\ \A i \in 1..Len(wn) : Len(wn[i]) = Bands
    /\ fr.G_k # <<>> => Cols(fr.G_k) = P * Q * R

(* C2 amended: every entry of wn holds 3*P*Q*R (P*Q) wavenumbers; the      *)
(* reciprocal-vector set has P*Q*R columns when P, Q and R are odd; with   *)
(* an even order it has more, and the run appends nothing.                 *)
C2_BandCount ==
    /\ \A i \in 1..Len(wn) : Len(wn[i]) = Bands
    /\ (fr.G_k # <<>> /\ Odd(P) /\ Odd(Q) /\ Odd(R)) => Cols(fr.G_k) = P * Q * R
    /\ (fr.G_k # <<>> /\ ~(Odd(P) /\ Odd(Q) /\ Odd(R))) =>
           Cols(fr.G_k) > P * Q * R /\ wn = <<>>

C2_Witness ==
    /\ cls = "Solver"
    /\ P = 3
    /\ Q * R = 3
    /\ Len(wn) = 2
    /\ Len(wn[2]) = 27
    /\ Cols(fr.G_k) = 9

(* C3: a run that finds the permeability convolution matrix singular       *)
(* raises LinAlgError from the inversion, before any call of eigh, and     *)
(* leaves wn and modes as they were.                                       *)
C3_SingularPermeability ==
    [][(last' = "run" /\ ncalls' = ncalls + 1 /\ Singular(mu_rc')) =>
         /\ exc'.type = "LinAlgError"
         /\ exc'.at = "inv"
         /\ pc' = "idle"
         /\ fr'.eigh_calls = 0
         /\ wn' = wn
         /\ modes' = modes]_vars

C3_Witness ==
    /\ last = "run"
    /\ pc = "idle"
    /\ Singular(mu_rc)
    /\ geo.eps_r = 1
    /\ NCols(path.beta_vec) > 0
    /\ exc.type = "LinAlgError"
    /\ exc.at = "inv"
    /\ wn = <<>>

(* C4: when eigh fails at the sample of 0-based index i during run(),      *)
(* nothing is appended for that sample, so wn and modes both have          *)
(* length i.                                                               *)
C4_FailureKeepsLength ==
    (last = "run" /\ exc.at = "eigh") =>
        /\ Len(wn) = fr.col
        /\ Len(modes) = fr.col

(* The step of a sample whose eigh fails appends nothing, leaves the       *)
(* entries of the earlier samples as they were and ends the run; wn and    *)
(* modes always have the same length.                                      *)
SampleStepAtomic ==
    /\ [](Len(wn) = Len(modes))
    /\ [][(pc = "loop" /\ fr'.eigh_calls = fr.eigh_calls + 1
             /\ EighError(fr'.A, fr'.B) # NoExc) =>
            /\ wn' = wn
            /\ modes' = modes
            /\ fr'.col = fr.col
            /\ pc' = "idle"
            /\ exc' = EighError(fr'.A, fr'.B)]_vars

(* C5: a failure of eigh ends the run after a single attempt on that       *)
(* sample, and the exception delivered carries the index of the column     *)
(* being processed.                                                        *)
C5_FailureNamesColumn ==
    (last = "run" /\ exc.at = "eigh") =>
        /\ pc = "idle"
        /\ fr.eigh_calls = fr.col + 1
        /\ \E a \in 1..Len(exc.args) : exc.args[a] = fr.col

(* C6: every stored wavenumber is a real number >= 0, and the entry stored *)
(* for a sample is the root of the clipped eigenvalue: sqrt(max(0, -d))    *)
(* in Solver, sqrt(max(0, d)) in Solver2D, so an eigenvalue of the wrong   *)
(* sign gives 0.                                                           *)
C6_ClipThenRoot ==
    /\ \A i \in 1..Len(wn) : \A j \in 1..Len(wn[i]) : wn[i][j].rad >= 0
    /\ fr.D # <<>> =>
          /\ Len(wn) > 0
          /\ Len(wn[Len(wn)]) = Len(fr.D)
          /\ \A j \in 1..Len(fr.D) :
                wn[Len(wn)][j].rad =
                    IF cls = "Solver"
                    THEN (IF fr.D[j] > 0 THEN 0 ELSE 0 - fr.D[j])
                    ELSE (IF fr.D[j] < 0 THEN 0 ELSE fr.D[j])

C6_Witness ==
    /\ cls = "Solver"
    /\ fr.D # <<>>
    /\ \E j \in 1..Len(fr.D) : fr.D[j] > 0 /\ wn[Len(wn)][j].rad = 0
    /\ \E j \in 1..Len(fr.D) : fr.D[j] = 0

(* C7: in Solver with P = Q = R = 1 and eps_r = mu_r = 1, the first        *)
(* wavenumber stored for a sample k is |k|, the root of k.k.               *)
C7_FreeSpace ==
    (cls = "Solver" /\ P = 1 /\ Q = 1 /\ R = 1 /\ geo.eps_r = 1 /\ geo.mu_r = 1
       /\ fr.D # <<>>) =>
        wn[Len(wn)][1] = [rad |-> NormSq(path.beta_vec[fr.col])]

C7_Witness ==
    /\ cls = "Solver" /\ P = 1 /\ Q = 1 /\ R = 1 /\ geo.eps_r = 1 /\ geo.mu_r = 1
    /\ fr.D # <<>>
    /\ path.beta_vec[fr.col] = <<0, 1, 2>>
    /\ wn[Len(wn)][1] = [rad |-> 5]

(* C8: in Solver2D, for the sample last assembled, pol = "TM" gives        *)
(* A = Kx mu^-1 Kx + Ky mu^-1 Ky and B = eps_rc, and every other pol gives *)
(* A = Kx eps^-1 Kx + Ky eps^-1 Ky and B = mu_rc.                          *)
C8_Polarization ==
    (cls = "Solver2D" /\ last = "run" /\ fr.eigh_calls > 0) =>
        \E k \in {Shifted(path.beta_vec, fr.eigh_calls - 1, fr.G_k)} :
        \E inv \in {IF pol = "TM" THEN fr.mu_i ELSE fr.eps_i} :
           /\ MatMul(inv, IF pol = "TM" THEN mu_rc ELSE eps_rc) = Eye(P * Q)
           /\ fr.B = IF pol = "TM" THEN eps_rc ELSE mu_rc
           /\ Rows(fr.A) = P * Q
           /\ \A i, j \in 1..(P * Q) :
                 fr.A[i][j] = Add(Mul(Mul(k[1][i], inv[i][j]), k[1][j]),
                                  Mul(Mul(k[2][i], inv[i][j]), k[2][j]))

C8_Witness ==
    /\ cls = "Solver2D"
    /\ last = "run"
    /\ pol = "tm"
    /\ fr.eigh_calls = 1
    /\ P * Q = 3
    /\ geo.eps_r = 1
    /\ geo.mu_r = -1
    /\ fr.B = mu_rc
    /\ fr.A[1][1] > 0

(* The 1-based column whose K_V the frame holds *)
CurlSample == IF exc = NoExc THEN fr.col ELSE fr.col + 1

CurlBlock(k, a, b, m) ==
    IF a = b THEN 0
    ELSE IF <<a, b>> = <<1, 2>> THEN 0 - k[3][m]
    ELSE IF <<a, b>> = <<1, 3>> THEN k[2][m]
    ELSE IF <<a, b>> = <<2, 1>> THEN k[3][m]
    ELSE IF <<a, b>> = <<2, 3>> THEN 0 - k[1][m]
    ELSE IF <<a, b>> = <<3, 1>> THEN 0 - k[2][m]
    ELSE k[1][m]

(* C9: in Solver, for a finite sample beta, K_V is the 3N x 3N block       *)
(* matrix [[0,-Kz,Ky],[Kz,0,-Kx],[-Ky,Kx,0]] of the diagonal matrices of   *)
(* the components of beta - G, and its transpose is its negation.          *)
C9_CurlOperator ==
    (cls = "Solver" /\ last = "run" /\ fr.K_V # <<>>
       /\ \A a \in 1..3 : IsFinite(path.beta_vec[CurlSample][a])) =>
        \E k \in {Shifted(path.beta_vec, CurlSample - 1, fr.G_k)}, n \in {Cols(fr.G_k)} :
           /\ Rows(fr.K_V) = 3 * n
           /\ Cols(fr.K_V) = 3 * n
           /\ \A a, b \in 1..3 : \A m, l \in 1..n :
                 fr.K_V[(a - 1) * n + m][(b - 1) * n + l] =
                     IF m = l THEN CurlBlock(k, a, b, m) ELSE 0
           /\ \A r, c \in 1..(3 * n) : fr.K_V[c][r] = 0 - fr.K_V[r][c]

C9_Witness ==
    /\ cls = "Solver"
    /\ last = "run"
    /\ P = 3 /\ Q = 3
    /\ Rows(fr.K_V) = 27
    /\ path.beta_vec[CurlSample] = <<0, 1, 2>>
    /\ fr.K_V[1][10] = -2
    /\ fr.K_V[10][1] = 2
    /\ fr.K_V[1][19] = 2

(* C10: whenever run() has returned, wn and modes hold one entry for each  *)
(* column of beta_vec, also when run() was called before on the same       *)
(* solver.                                                                 *)
C10_OneEntryPerColumn ==
    RunReturned =>
        /\ Len(wn) = NCols(path.beta_vec)
        /\ Len(modes) = NCols(path.beta_vec)

====
